---- MODULE Spec2Model ----
(***************************************************************************)
(* Model of backend/main.py: a FastAPI service with four handlers          *)
(* (create_task, get_tasks, update_task, delete_task) over one table,      *)
(* "tasks", reached through a request-scoped SQLAlchemy session (get_db).  *)
(*                                                                         *)
(* A request runs in three steps: the framework resolves Depends(get_db)   *)
(* (action get_db), calls the handler (the action named after it) and      *)
(* resumes get_db's generator, whose finally closes the session (action    *)
(* get_db_finally).  Requests in different slots interleave at these       *)
(* steps.  A handler's body is one transaction of the store and is taken   *)
(* as one step; the store-layer call that fails, if any, is an input of    *)
(* the step (fault).  A handler step leaves its request, its response and   *)
(* its log line in req, res and log, and the framework's sending of the    *)
(* response (Respond) is the very next step: nothing another request does  *)
(* can change a response that is made, so no step is put between the two.  *)
(***************************************************************************)
EXTENDS Integers, Sequences, FiniteSets, TLC

\* ------------------------------------------------------------- bounds
MaxSlots == 2       \* requests the framework handles at the same time
MaxRequests == 2    \* requests started in one behaviour
MaxId == 2          \* values the id sequence of the table may hand out

Slots == 1..MaxSlots
\* ids a client asks for: every id the sequence can hand out, and one more
TaskIds == 1..(MaxId + 1)

\* ------------------------------------------------------------- values
\* a field of a body, of a model or of a row: None, or Some(v) for the value v
None == <<>>
Some(v) == <<v>>

Fields == {"title", "description", "completed", "color"}

\* values a client supplies for each field in a POST body
CreateValues(f) ==
    CASE f = "title" -> {Some("A")}
      [] f = "description" -> {Some("d")}
      [] f = "completed" -> {Some(TRUE)}
      [] f = "color" -> {Some("#ff0000")}

\* values a client supplies for each field in a PUT body, null among them for
\* title and completed
UpdateValues(f) ==
    CASE f = "title" -> {None, Some("B")}
      [] f = "description" -> {Some("e")}
      [] f = "completed" -> {None, Some(TRUE)}
      [] f = "color" -> {Some("#ff0000")}

\* characters of the status query parameter, and the parameter values tried
UpperChars == <<"C", "O", "M", "P", "L", "E", "T", "D", "F">>
LowerChars == <<"c", "o", "m", "p", "l", "e", "t", "d", "f">>

Statuses ==
    { None,
      Some(<<>>),
      Some(<<"c", "o", "m", "p", "l", "e", "t", "e", "d">>),
      Some(<<"C", "O", "M", "P", "L", "E", "T", "E", "D">>),
      Some(<<"C", "o", "m", "p", "l", "e", "t", "e", "d">>),
      Some(<<"p", "e", "n", "d", "i", "n", "g">>),
      Some(<<"f", "o", "o">>) }

\* str.lower()
LowerChar(c) ==
    IF \E i \in DOMAIN UpperChars : UpperChars[i] = c
    THEN LowerChars[CHOOSE i \in DOMAIN UpperChars : UpperChars[i] = c]
    ELSE c

Lower(s) == [i \in DOMAIN s |-> LowerChar(s[i])]

Completed == <<"c", "o", "m", "p", "l", "e", "t", "e", "d">>

\* ------------------------------------------------------------- state
VARIABLES
    rows,       \* the committed rows of table "tasks"
    seq,        \* last value handed out by the id sequence of the table
    issued,     \* history: the ids given to created tasks, in order
    deleted,    \* history: the ids whose delete_task answered success
    sessions,   \* the open sessions
    started,    \* requests started so far
    pc,         \* per slot: "idle", "open" (session acquired), and how the
                \* handler ended: "returned" or "raised"
    db,         \* per slot: the session get_db yielded, 0 when none
    req,        \* the request of the handler that has just run
    res,        \* its HTTP response
    log,        \* the exception its logger.error reported
    changed     \* whether it changed the committed rows

vars == <<rows, seq, issued, deleted, sessions, started,
          pc, db, req, res, log, changed>>

\* ------------------------------------------------------------- models
\* class Task(Base): a row of "tasks".  id is filled by the store on INSERT;
\* every other column is nullable (no nullable=False is declared).
Task(id, title, description, color, completed) ==
    [id |-> id, title |-> title, description |-> description,
     completed |-> completed, color |-> color]

\* class TaskCreate(BaseModel): title and description are required, completed
\* and color take their defaults when the body leaves them out.  A parsed body
\* is the four values and the set of fields the client supplied.
TaskCreateDefaultOther(f) ==
    CASE f = "completed" -> Some(FALSE)
      [] f = "color" -> Some("#000000")

TaskCreateDefault(f) ==
    CASE f = "completed" -> Some(FALSE)
      [] f = "color" -> Some("#ffffff")

TaskCreate ==
    { t \in [title : CreateValues("title"),
             description : CreateValues("description"),
             completed : CreateValues("completed") \cup {TaskCreateDefault("completed")},
             color : CreateValues("color") \cup {TaskCreateDefault("color")},
             fields_set : SUBSET Fields] :
        /\ {"title", "description"} \subseteq t.fields_set
        /\ \A f \in t.fields_set : t[f] \in CreateValues(f)
        /\ \A f \in Fields \ t.fields_set : t[f] = TaskCreateDefault(f) }

\* class TaskUpdate(BaseModel): every field Optional with default None, so a
\* body may leave a field out or supply null for it.
TaskUpdate ==
    { t \in [title : {None} \cup UpdateValues("title"),
             description : {None} \cup UpdateValues("description"),
             completed : {None} \cup UpdateValues("completed"),
             color : {None} \cup UpdateValues("color"),
             fields_set : SUBSET Fields] :
        /\ \A f \in t.fields_set : t[f] \in UpdateValues(f)
        /\ \A f \in Fields \ t.fields_set : t[f] = None }

\* task.dict(): every field, the unset ones with their default None
DictAll(task) == [f \in Fields |-> task[f]]

\* task.dict(exclude_unset=True): the supplied fields only
DictExcludeUnset(task) == [f \in task.fields_set |-> task[f]]

\* class TaskResponse(BaseModel), orm_mode: id: int, title: str,
\* description: str, completed: bool, color: str; None validates for no field
TaskResponse(t) == \A f \in Fields : t[f] # None

\* ------------------------------------------------------------- exceptions
NoException == [type |-> "none", status_code |-> 0, detail |-> ""]

HTTPException(status_code, detail) ==
    [type |-> "HTTPException", status_code |-> status_code, detail |-> detail]

\* what the session raises when a query, a commit or a refresh fails
StoreError(call) ==
    [type |-> "SQLAlchemyError", status_code |-> 0, detail |-> call]

\* the result of a handler's try block: what it raised or returned, and the
\* rows committed when it ended
Raised(e, store) == [raised |-> e, value |-> {}, message |-> "", store |-> store]
Returned(v, m, store) == [raised |-> NoException, value |-> v, message |-> m, store |-> store]

\* an except clause that passes the exception's text on: detail=str(e)
ExceptExceptionStr(out) ==
    IF out.raised # NoException
    THEN Raised(HTTPException(500, out.raised.detail), out.store)
    ELSE out

\* except Exception as e: logger.error(...); raise HTTPException(500, ...).
\* HTTPException is an Exception, so the clause catches the handler's own
\* HTTPException(404) as well.
ExceptException(out) ==
    IF out.raised # NoException
    THEN Raised(HTTPException(500, "Internal server error"), out.store)
    ELSE out

\* The response the framework sends: the HTTPException's status and detail, or
\* the returned value through the route's response_model; a value that does not
\* validate is answered 500 by the framework.
Response(out, validates) ==
    IF out.raised # NoException
    THEN [status_code |-> out.raised.status_code, detail |-> out.raised.detail,
          message |-> "", body |-> {}]
    ELSE IF ~validates
    THEN [status_code |-> 500, detail |-> "Internal Server Error",
          message |-> "", body |-> {}]
    ELSE [status_code |-> 200, detail |-> "", message |-> out.message,
          body |-> out.value]

NoResponse == [status_code |-> 0, detail |-> "", message |-> "", body |-> {}]

\* req when no response waits to be sent
NoRequest ==
    [op |-> "none", task_id |-> 0, status |-> None,
     task |-> [title |-> None, description |-> None, completed |-> None,
               color |-> None, fields_set |-> {}]]

\* ------------------------------------------------------------- the store
\* an id computed from the rows in the table: one more than the largest
NextValAfterMax ==
    IF rows = {} THEN 1
    ELSE (CHOOSE m \in {t.id : t \in rows} : \A t \in rows : t.id <= m) + 1

\* INSERT without an id: the column's sequence hands out its next value
NextVal == seq + 1

\* db.query(Task).filter(Task.id == task_id).first()
First(task_id) ==
    IF \E t \in rows : t.id = task_id
    THEN Some(CHOOSE t \in rows : t.id = task_id)
    ELSE None

\* db.refresh(db_task): the committed row of that id, read again
Refresh(store, id) == {t \in store : t.id = id}

\* for key, value in update_data.items(): setattr(db_task, key, value)
SetAttrs(db_task, update_data) ==
    [f \in DOMAIN db_task |->
        IF f \in DOMAIN update_data THEN update_data[f] ELSE db_task[f]]

\* Task.completed == flag, in SQL: a row whose completed is NULL matches neither
CompletedIs(flag) == {t \in rows : t.completed = Some(flag)}

\* if status: None and "" are false
Truthy(status) == status # None /\ status[1] # <<>>

\* ------------------------------------------------------------- try blocks
create_try(task, fault) ==
    LET db_task == Task(NextVal, task.title, task.description,
                        task.color, task.completed)
    IN  IF fault = "commit" THEN Raised(StoreError("commit"), rows)
        ELSE LET store == rows \cup {db_task}
             IN  IF fault = "refresh" THEN Raised(StoreError("refresh"), store)
                 ELSE Returned(Refresh(store, db_task.id), "", store)

get_try(status, fault) ==
    IF fault = "query" THEN Raised(StoreError("query"), rows)
    ELSE IF Truthy(status)
    THEN Returned(CompletedIs(Lower(status[1]) = Completed), "", rows)
    ELSE Returned(rows, "", rows)

update_try(task_id, task, fault) ==
    IF fault = "query" THEN Raised(StoreError("query"), rows)
    ELSE IF First(task_id) = None
    THEN Raised(HTTPException(404, "Task not found"), rows)
    ELSE LET db_task == First(task_id)[1]
             update_data == DictExcludeUnset(task)
             updated == SetAttrs(db_task, update_data)
         IN  IF fault = "commit" THEN Raised(StoreError("commit"), rows)
             ELSE LET store == (rows \ {db_task}) \cup {updated}
                  IN  IF fault = "refresh"
                      THEN Raised(StoreError("refresh"), store)
                      ELSE Returned(Refresh(store, updated.id), "", store)

\* delete_task without db.delete(db_task): nothing to commit
delete_try_kept(task_id, fault) ==
    IF fault = "query" THEN Raised(StoreError("query"), rows)
    ELSE IF First(task_id) = None
    THEN Raised(HTTPException(404, "Task not found"), rows)
    ELSE IF fault = "commit" THEN Raised(StoreError("commit"), rows)
    ELSE Returned({}, "Task deleted successfully", rows)

delete_try(task_id, fault) ==
    IF fault = "query" THEN Raised(StoreError("query"), rows)
    ELSE IF First(task_id) = None
    THEN Raised(HTTPException(404, "Task not found"), rows)
    ELSE LET db_task == First(task_id)[1]
         IN  IF fault = "commit" THEN Raised(StoreError("commit"), rows)
             ELSE Returned({}, "Task deleted successfully", rows \ {db_task})

\* ------------------------------------------------------------- sessions
\* get_db: db = SessionLocal(), a new object, distinct from every open session
SessionLocal == CHOOSE s \in 1..MaxRequests : s \notin sessions

\* get_db: finally: db.close(), whether the handler returned or raised
CloseOnReturnOnly(r) == IF pc[r] = "returned" THEN sessions \ {db[r]} ELSE sessions

Close(r) == sessions \ {db[r]}

\* ------------------------------------------------------------- actions
\* Base.metadata.create_all(bind=engine) at startup: the table is made empty,
\* or is there already, as an earlier run of the service left it
Persisted ==
    { [rows |-> {}, seq |-> 0, issued |-> <<>>],
      [rows |-> {Task(1, Some("A"), Some("d"), Some("#ffffff"), Some(FALSE))},
       seq |-> 1, issued |-> <<1>>] }

Init ==
    /\ \E p \in Persisted : rows = p.rows /\ seq = p.seq /\ issued = p.issued
    /\ deleted = {}
    /\ sessions = {}
    /\ started = 0
    /\ pc = [r \in Slots |-> "idle"]
    /\ db = [r \in Slots |-> 0]
    /\ req = NoRequest
    /\ res = NoResponse
    /\ log = NoException
    /\ changed = FALSE

\* a response is made and not yet sent
Pending == req.op # "none"

\* a request arrives and the framework resolves Depends(get_db); slots are
\* interchangeable, the request takes the first idle one
get_db(r) ==
    /\ ~Pending
    /\ pc[r] = "idle"
    /\ \A q \in Slots : q < r => pc[q] # "idle"
    /\ started < MaxRequests
    /\ started' = started + 1
    /\ db' = [db EXCEPT ![r] = SessionLocal]
    /\ sessions' = sessions \cup {SessionLocal}
    /\ pc' = [pc EXCEPT ![r] = "open"]
    /\ UNCHANGED <<rows, seq, issued, deleted, req, res, log, changed>>

\* the handler has run: its except clause, the response, the log line
Handled(r, request, out, validates) ==
    /\ rows' = out.store
    /\ req' = request
    /\ res' = Response(ExceptException(out), validates)
    /\ log' = out.raised
    /\ changed' = (out.store # rows)
    /\ pc' = [pc EXCEPT ![r] = IF out.raised = NoException THEN "returned" ELSE "raised"]
    /\ UNCHANGED <<sessions, started, db>>

\* POST /tasks/
create_task(r) ==
    /\ ~Pending
    /\ pc[r] = "open"
    /\ seq < MaxId
    /\ \E task \in TaskCreate, fault \in {"none", "commit", "refresh"} :
         LET out == create_try(task, fault)
         IN  /\ Handled(r, [NoRequest EXCEPT !.op = "create_task", !.task = task],
                        out, \A t \in out.value : TaskResponse(t))
             \* a failed INSERT may or may not have drawn from the sequence
             /\ \/ seq' = NextVal
                \/ fault = "commit" /\ seq' = seq
             /\ issued' = IF fault = "commit" THEN issued ELSE Append(issued, NextVal)
    /\ UNCHANGED deleted

\* GET /tasks/
get_tasks(r) ==
    /\ ~Pending
    /\ pc[r] = "open"
    /\ \E status \in Statuses, fault \in {"none", "query"} :
         LET out == get_try(status, fault)
         IN  Handled(r, [NoRequest EXCEPT !.op = "get_tasks", !.status = status],
                     out, \A t \in out.value : TaskResponse(t))
    /\ UNCHANGED <<seq, issued, deleted>>

\* PUT /tasks/{task_id}
update_task(r) ==
    /\ ~Pending
    /\ pc[r] = "open"
    /\ \E task_id \in TaskIds, task \in TaskUpdate,
          fault \in {"none", "query", "commit", "refresh"} :
         LET out == update_try(task_id, task, fault)
         IN  Handled(r, [NoRequest EXCEPT !.op = "update_task",
                                          !.task_id = task_id, !.task = task],
                     out, \A t \in out.value : TaskResponse(t))
    /\ UNCHANGED <<seq, issued, deleted>>

\* DELETE /tasks/{task_id}: no response_model
delete_task(r) ==
    /\ ~Pending
    /\ pc[r] = "open"
    /\ \E task_id \in TaskIds, fault \in {"none", "query", "commit"} :
         LET out == delete_try(task_id, fault)
         IN  /\ Handled(r, [NoRequest EXCEPT !.op = "delete_task", !.task_id = task_id],
                        out, TRUE)
             /\ deleted' = IF out.raised = NoException
                           THEN deleted \cup {task_id} ELSE deleted
    /\ UNCHANGED <<seq, issued>>

\* the response is out; get_db's generator resumes and its finally runs
get_db_finally(r) ==
    /\ ~Pending
    /\ pc[r] \in {"returned", "raised"}
    /\ sessions' = Close(r)
    /\ db' = [db EXCEPT ![r] = 0]
    /\ pc' = [pc EXCEPT ![r] = "idle"]
    /\ UNCHANGED <<rows, seq, issued, deleted, started, req, res, log, changed>>

\* the framework sends the response of the handler that has just run
Respond ==
    /\ Pending
    /\ req' = NoRequest
    /\ res' = NoResponse
    /\ log' = NoException
    /\ changed' = FALSE
    /\ UNCHANGED <<rows, seq, issued, deleted, sessions, started, pc, db>>

Next ==
    \/ \E r \in Slots :
        \/ get_db(r)
        \/ create_task(r)
        \/ get_tasks(r)
        \/ update_task(r)
        \/ delete_task(r)
        \/ get_db_finally(r)
    \/ Respond

Spec == Init /\ [][Next]_vars

\* The framework runs every started request to its end: it calls the handler
\* once get_db has yielded, sends the response the handler made and resumes
\* get_db once the handler has ended.  A
\* slot is "open" exactly while a handler step of it is enabled, and the four
\* handlers are enabled together (create_task up to the bound on ids), so weak
\* fairness of one handler says what weak fairness of their disjunction says:
\* no slot stays "open" for ever.
FairSpec ==
    /\ Spec
    /\ WF_vars(Respond)
    /\ \A r \in Slots : WF_vars(get_tasks(r)) /\ WF_vars(get_db_finally(r))

\* ------------------------------------------------------------- claims
NotFound == HTTPException(404, "Task not found")
StoreFailed == log.type = "SQLAlchemyError"

\* C1: update_task and delete_task on an id that is not in the store, with no
\* store-layer failure, answer 404 'Task not found' and never 500.
C1_MissingIdIs404 ==
    ( /\ req.op \in {"update_task", "delete_task"}
      /\ ~StoreFailed
      /\ ~changed
      /\ \A t \in rows : t.id # req.task_id )
    => (res.status_code = 404 /\ res.detail = "Task not found")

\* this step is an update_task whose commit went through
C2_Committed ==
    /\ req'.op = "update_task"
    /\ \E r \in Slots : pc[r] = "open" /\ pc'[r] # "open"
    /\ log' \in {NoException, StoreError("refresh")}

\* C2: an update_task that commits sets exactly the supplied fields of the task
\* to the supplied values; the task's other fields and its id keep the values
\* they had, and every other task is unchanged.
C2_PartialUpdate ==
    [][ C2_Committed =>
          \E old \in rows, new \in rows' :
            /\ old.id = req'.task_id
            /\ new.id = old.id
            /\ \A f \in req'.task.fields_set : new[f] = req'.task[f]
            /\ \A f \in Fields \ req'.task.fields_set : new[f] = old[f]
            /\ rows' \ {new} = rows \ {old} ]_vars

C2_Witness ==
    /\ req.op = "update_task"
    /\ res.status_code = 200
    /\ req.task.fields_set = {"completed"}
    /\ req.task.completed = Some(TRUE)
    /\ changed
    /\ Cardinality(rows) = 2

\* s equals t ignoring case
EqualsIgnoreCase(s, t) ==
    /\ Len(s) = Len(t)
    /\ \A i \in 1..Len(s) :
         \/ s[i] = t[i]
         \/ \E k \in DOMAIN UpperChars :
              {s[i], t[i]} = {UpperChars[k], LowerChars[k]}

\* C3: get_tasks with a status equal to "completed" ignoring case returns
\* exactly the stored tasks with completed = true, and with any other non-empty
\* status exactly the stored tasks with completed = false.
C3_FilterExact ==
    ( /\ req.op = "get_tasks"
      /\ req.status # None
      /\ req.status[1] # <<>>
      /\ ~StoreFailed )
    => /\ res.status_code = 200
       /\ res.body = {t \in rows :
                        t.completed = Some(EqualsIgnoreCase(req.status[1], Completed))}

\* C4: get_tasks with no status filter succeeds and returns exactly the tasks in
\* the store, with their current values.
C4_ListAll ==
    (req.op = "get_tasks" /\ req.status = None /\ ~StoreFailed)
    => (res.status_code = 200 /\ res.body = rows)

\* C5: every id create_task assigns was never assigned before, to a task still
\* stored or to one since deleted, and no two stored tasks share an id.
C5_IdsNeverReused ==
    /\ \A i, j \in DOMAIN issued : issued[i] = issued[j] => i = j
    /\ \A t \in rows : \E i \in DOMAIN issued : issued[i] = t.id
    /\ \A t, u \in rows : t.id = u.id => t = u
    /\ (req.op = "create_task" /\ res.status_code = 200)
         => res.body = {t \in rows : t.id = issued[Len(issued)]}

C5_Witness ==
    /\ req.op = "create_task"
    /\ res.status_code = 200
    /\ deleted = {1}
    /\ issued = <<1, 2>>

\* C6: once delete_task has answered success for an id, no row of that id is
\* stored, no later get_tasks response holds a task of that id, and a later
\* update_task or delete_task on it does not find it.
C6_DeletedStaysDeleted ==
    [][ /\ \A t \in rows' : t.id \notin deleted'
        /\ (\E r \in Slots : pc[r] = "open" /\ pc'[r] # "open")
             => /\ \A t \in res'.body : t.id \notin deleted
                /\ ( /\ req'.op \in {"update_task", "delete_task"}
                     /\ req'.task_id \in deleted )
                     => /\ res'.status_code # 200
                        /\ log' \in {NotFound, StoreError("query")}
                        /\ rows' = rows ]_vars

C6_Witness ==
    /\ deleted = {1}
    /\ req.op = "update_task"
    /\ req.task_id = 1
    /\ log = NotFound

\* the value the created task is to hold for f
C7_Expected(f) ==
    IF f \in req.task.fields_set THEN req.task[f]
    ELSE IF f = "completed" THEN Some(FALSE)
    ELSE Some("#ffffff")

\* C7: create_task persists and returns a task with the supplied title and
\* description, with completed and color as supplied, and with completed =
\* false and color = "#ffffff" where the body leaves them out.
C7_CreateDefaults ==
    (req.op = "create_task" /\ res.status_code = 200)
    => \E t \in rows :
         /\ res.body = {t}
         /\ {"title", "description"} \subseteq req.task.fields_set
         /\ \A f \in Fields : t[f] = C7_Expected(f) /\ t[f] # None

C7_Witness ==
    /\ req.op = "create_task"
    /\ res.status_code = 200
    /\ req.task.fields_set = {"title", "description"}

\* every running request has a session, no two the same one, and no other
\* session is open
C8_Scoped ==
    /\ \A r \in Slots : (pc[r] = "idle") <=> (db[r] = 0)
    /\ sessions = {db[r] : r \in {q \in Slots : pc[q] # "idle"}}
    /\ \A r, q \in Slots : (pc[r] # "idle" /\ pc[q] # "idle" /\ db[r] = db[q]) => r = q

\* C8: every request has a session of its own while it runs, the open sessions
\* are those of the running requests and no others, and every session opened
\* is closed in the end, however the handler ended.
C8_SessionsClosed ==
    /\ []C8_Scoped
    /\ \A s \in 1..MaxRequests : (s \in sessions) ~> (s \notin sessions)

C8_Witness ==
    /\ pc[1] = "raised"
    /\ pc[2] = "returned"
    /\ db[1] # db[2]
    /\ sessions = {db[1], db[2]}

\* C9, as claimed: a store-layer failure ends the request with 500 and the fixed
\* detail, nothing of the exception in the response, and the store as it was.
C9_FailureLeavesStore ==
    StoreFailed
    => /\ res.status_code = 500
       /\ res.detail = "Internal server error"
       /\ res.body = {} /\ res.message = ""
       /\ ~changed

\* C9, as amended: the same, with the store as it was when the call that failed
\* is a query or a commit; a refresh fails after its commit, whose change stays.
C9_FailureIs500 ==
    StoreFailed
    => /\ res.status_code = 500
       /\ res.detail = "Internal server error"
       /\ res.detail # log.detail
       /\ res.body = {} /\ res.message = ""
       /\ log.detail \in {"query", "commit"} => ~changed
       /\ (log.detail = "refresh" /\ req.op = "create_task") => changed

C9_Witness ==
    /\ req.op = "update_task"
    /\ log = StoreError("commit")
    /\ res.status_code = 500

\* C10: every stored task has non-null title, description, completed and color.
C10_NoNullStored ==
    \A t \in rows : \A f \in Fields : t[f] # None

====
